---- MODULE Spec2Model ----
(***************************************************************************)
(* Journalisering af opmaerksomhedsskemaer i DUBU.                         *)
(*                                                                         *)
(* A model of src/main.py (the intake run, main --queue, and the           *)
(* fulfillment run, process_workqueue) together with the parts of          *)
(* src/services/mail_service.py and src/services/utils.py they use.        *)
(*                                                                         *)
(* Text is a sequence of one-character strings, so that lower(), the "in"  *)
(* substring test and the regular expressions are computed, not assumed.   *)
(* The mailbox (Microsoft Graph), the work queue (automation server) and   *)
(* the case system (DUBU) are the environment: what they answer is chosen  *)
(* with \E in the action that calls them, a failing answer at most         *)
(* MaxFaults times in one behaviour.  Runs do not overlap: the program is   *)
(* one sequential process, started once per run.                           *)
(***************************************************************************)
EXTENDS Integers, Sequences, FiniteSets, TLC

(* ------------------------------ bounds -------------------------------- *)

\* Number of messages in the polled mailbox.
MaxMsgs == 2
\* Number of program runs (intake or fulfillment) in one behaviour.
MaxRuns == 3
\* Number of calls in one behaviour that the environment (Graph API, work
\* queue, DUBU) answers with an error or a failure.
MaxFaults == 1

(* ------------------------------- text --------------------------------- *)

Upper == <<"A","B","C","D","E","F","G","H","I","J","K","L","M",
           "N","O","P","Q","R","S","T","U","V","W","X","Y","Z">>
Lowercase == <<"a","b","c","d","e","f","g","h","i","j","k","l","m",
               "n","o","p","q","r","s","t","u","v","w","x","y","z">>

\* str.lower() of one character.
LowerChar(c) ==
    IF \E i \in 1..26 : Upper[i] = c
    THEN Lowercase[CHOOSE i \in 1..26 : Upper[i] = c]
    ELSE c

\* str.lower()
Lower(s) == [i \in 1..Len(s) |-> LowerChar(s[i])]

\* Python's slice s[a:b] with 0 <= a (0-based, b exclusive, clipped).
Slice(s, a, b) ==
    LET hi == IF b < Len(s) THEN b ELSE Len(s)
    IN  IF a >= hi THEN <<>> ELSE SubSeq(s, a + 1, hi)

\* Whether needle occurs in s at 1-based position i.
OccursAt(needle, s, i) ==
    /\ i >= 1
    /\ i + Len(needle) - 1 <= Len(s)
    /\ \A k \in 1..Len(needle) : s[i + k - 1] = needle[k]

\* Python's "needle in s" on strings: a left-to-right scan for the needle.
RECURSIVE ScanFrom(_, _, _)
ScanFrom(needle, s, i) ==
    IF i + Len(needle) - 1 > Len(s) THEN FALSE
    ELSE IF OccursAt(needle, s, i) THEN TRUE
    ELSE ScanFrom(needle, s, i + 1)

Contains(needle, s) == ScanFrom(needle, s, 1)

Digits == {"0","1","2","3","4","5","6","7","8","9"}
IsDigit(c) == c \in Digits
\* \s of the re module, over the characters the model uses.
IsSpace(c) == c \in {" ", "\n", "\t", "\r"}

\* str.strip()
RECURSIVE LStrip(_)
LStrip(s) == IF s # <<>> /\ IsSpace(Head(s)) THEN LStrip(Tail(s)) ELSE s
RECURSIVE RStrip(_)
RStrip(s) ==
    IF s # <<>> /\ IsSpace(s[Len(s)]) THEN RStrip(SubSeq(s, 1, Len(s) - 1)) ELSE s
Strip(s) == RStrip(LStrip(s))

(* ---------------- services/mail_service.py: pure text ----------------- *)

\* '\n'.join(parts)
RECURSIVE JoinLines(_)
JoinLines(parts) ==
    IF parts = <<>> THEN <<>>
    ELSE IF Len(parts) = 1 THEN parts[1]
    ELSE parts[1] \o <<"\n">> \o JoinLines(Tail(parts))

\* s.split(sep) for a one-character separator.
RECURSIVE SplitOn(_, _, _)
SplitOn(s, sep, cur) ==
    IF s = <<>> THEN <<cur>>
    ELSE IF Head(s) = sep THEN <<cur>> \o SplitOn(Tail(s), sep, <<>>)
    ELSE SplitOn(Tail(s), sep, Append(cur, Head(s)))

\* The text nodes of a document in document order: the runs of characters
\* outside <...> tags.
RECURSIVE TextNodes(_, _, _)
TextNodes(s, inTag, cur) ==
    IF s = <<>> THEN (IF cur = <<>> THEN <<>> ELSE <<cur>>)
    ELSE IF inTag THEN TextNodes(Tail(s), Head(s) # ">", <<>>)
    ELSE IF Head(s) = "<"
         THEN (IF cur = <<>> THEN <<>> ELSE <<cur>>) \o TextNodes(Tail(s), TRUE, <<>>)
    ELSE TextNodes(Tail(s), FALSE, Append(cur, Head(s)))

\* The members of a sequence of texts that are not blank, stripped on demand.
RECURSIVE NonBlank(_, _)
NonBlank(parts, strip) ==
    IF parts = <<>> THEN <<>>
    ELSE IF Strip(Head(parts)) = <<>> THEN NonBlank(Tail(parts), strip)
    ELSE <<IF strip THEN Strip(Head(parts)) ELSE Head(parts)>>
         \o NonBlank(Tail(parts), strip)

\* extract_text_from_html: get_text(separator='\n', strip=True), then the
\* blank lines removed.
extract_text_from_html(html_content) ==
    LET text  == JoinLines(NonBlank(TextNodes(html_content, FALSE, <<>>), TRUE))
        lines == NonBlank(SplitOn(text, "\n", <<>>), FALSE)
    IN  JoinLines(lines)

LblDato == <<"I","n","d","s","e","n","d","t"," ","d","a","t","o",":">>
LblCpr  == <<"C","P","R","-","n","r">>
LblLok  == <<"H","v","o","r"," ","e","r"," ","b","a","r","n","e","t"," ",
             "i"," ","h","v","e","r","d","a","g","e","n",":">>
LblNavn == <<"N","a","v","n",":">>

\* A literal of a pattern compiled with re.IGNORECASE, at 1-based position i.
LabelAt(label, s, i) ==
    /\ i >= 1
    /\ i + Len(label) - 1 <= Len(s)
    /\ Lower(SubSeq(s, i, i + Len(label) - 1)) = Lower(label)

\* \s* (greedy) from position j: the position of the first character that
\* is not white space, Len(s) + 1 when there is none.
RECURSIVE SkipWs(_, _)
SkipWs(s, j) == IF j <= Len(s) /\ IsSpace(s[j]) THEN SkipWs(s, j + 1) ELSE j

\* The end of the run of characters from j on that satisfy the class.
RECURSIVE RunEnd(_, _, _)
RunEnd(s, j, class) ==
    IF j + 1 <= Len(s) /\ s[j + 1] \in class THEN RunEnd(s, j + 1, class) ELSE j

NoMatch == [ok |-> FALSE, group |-> <<>>]

\* r'Indsendt dato:\s*([\d-]+)' matched at position i.
DatoMatchAt(s, i) ==
    IF ~LabelAt(LblDato, s, i) THEN NoMatch
    ELSE LET j == SkipWs(s, i + Len(LblDato))
             class == Digits \cup {"-"}
         IN  IF j <= Len(s) /\ s[j] \in class
             THEN [ok |-> TRUE, group |-> SubSeq(s, j, RunEnd(s, j, class))]
             ELSE NoMatch

\* r'CPR-nr\.?:\s*(\d{10})' matched at position i.
CprMatchAt(s, i) ==
    IF ~LabelAt(LblCpr, s, i) THEN NoMatch
    ELSE LET a == i + Len(LblCpr)
             b == IF a <= Len(s) /\ s[a] = "." THEN a + 1 ELSE a
         IN  IF ~(b <= Len(s) /\ s[b] = ":") THEN NoMatch
             ELSE LET j == SkipWs(s, b + 1)
                  IN  IF j + 9 <= Len(s) /\ \A k \in j..(j + 9) : IsDigit(s[k])
                      THEN [ok |-> TRUE, group |-> SubSeq(s, j, j + 9)]
                      ELSE NoMatch

\* r'<label>\s*(.+?)(?:\n|$)' matched at position i: \s* is greedy and
\* gives characters back until '.' (anything but a newline) can match; the
\* lazy group then runs to the first newline or the end of the text.
FreeTextMatchAt(label, s, i) ==
    IF ~LabelAt(label, s, i) THEN NoMatch
    ELSE LET p == i + Len(label)
             j == SkipWs(s, p)
             back == {q \in p..Len(s) : s[q] # "\n"}
             NotNl == {s[k] : k \in 1..Len(s)} \ {"\n"}
         IN  IF j <= Len(s)
             THEN [ok |-> TRUE, group |-> SubSeq(s, j, RunEnd(s, j, NotNl))]
             ELSE IF back # {}
             THEN LET q == CHOOSE x \in back : \A y \in back : y <= x
                  IN  [ok |-> TRUE, group |-> SubSeq(s, q, RunEnd(s, q, NotNl))]
             ELSE NoMatch

LokMatchAt(s, i) == FreeTextMatchAt(LblLok, s, i)
NavnMatchAt(s, i) == FreeTextMatchAt(LblNavn, s, i)

\* The pattern of that field matched at position i.
MatchAt(field, s, i) ==
    CASE field = "indsendt_dato" -> DatoMatchAt(s, i)
      [] field = "cpr_nr"        -> CprMatchAt(s, i)
      [] field = "lokation"      -> LokMatchAt(s, i)
      [] field = "navn"          -> NavnMatchAt(s, i)

\* re.search: the match at the leftmost position that has one.
Search(field, s) ==
    LET hits == {i \in 1..Len(s) : MatchAt(field, s, i).ok}
    IN  IF hits = {} THEN NoMatch
        ELSE MatchAt(field, s, CHOOSE i \in hits : \A k \in hits : i <= k)

\* A dict with the one key k.
Dict1(k, v) == [x \in {k} |-> v]
EmptyDict == [x \in {} |-> <<>>]

\* parse_email_data: a dict holding a key for each pattern that matched.
parse_email_data(text_content) ==
    LET dato == Search("indsendt_dato", text_content)
        cpr  == Search("cpr_nr", text_content)
        lok  == Search("lokation", text_content)
        navn == Search("navn", text_content)
    IN  (IF dato.ok THEN Dict1("indsendt_dato", dato.group) ELSE EmptyDict)
        @@ (IF cpr.ok THEN Dict1("cpr_nr", cpr.group) ELSE EmptyDict)
        @@ (IF lok.ok THEN Dict1("lokation", Strip(lok.group)) ELSE EmptyDict)
        @@ (IF navn.ok THEN Dict1("navn", Strip(navn.group)) ELSE EmptyDict)

(* ------------------------ services/utils.py --------------------------- *)

\* datetime.now(): the date of the run.
Now == [year |-> 2026, month |-> 11, day |-> 2]

DigitValue(c) == CHOOSE n \in 0..9 : <<"0","1","2","3","4","5","6","7","8","9">>[n + 1] = c

RECURSIVE DigitsValue(_, _)
DigitsValue(s, acc) ==
    IF s = <<>> THEN acc ELSE DigitsValue(Tail(s), 10 * acc + DigitValue(Head(s)))

\* int(s) for a text of at most two characters: white space around it is
\* dropped, a sign is allowed, the rest is one or more digits; anything
\* else is a ValueError (ok = FALSE).
PyInt(s) ==
    LET t    == Strip(s)
        sign == t # <<>> /\ Head(t) \in {"+", "-"}
        body == IF sign THEN Tail(t) ELSE t
    IN  IF body # <<>> /\ \A k \in 1..Len(body) : IsDigit(body[k])
        THEN [ok |-> TRUE,
              val |-> IF sign /\ Head(t) = "-" THEN 0 - DigitsValue(body, 0)
                      ELSE DigitsValue(body, 0)]
        ELSE [ok |-> FALSE, val |-> 0]

IsLeap(y) == (y % 4 = 0) /\ ((y % 100 # 0) \/ (y % 400 = 0))

DaysInMonth(y, m) ==
    IF m = 2 THEN (IF IsLeap(y) THEN 29 ELSE 28)
    ELSE IF m \in {4, 6, 9, 11} THEN 30 ELSE 31

\* Whether datetime(y, m, d) is a date (it raises ValueError otherwise).
ValidDate(y, m, d) ==
    /\ y \in 1..9999
    /\ m \in 1..12
    /\ d >= 1
    /\ d <= DaysInMonth(y, m)

RECURSIVE DaysBeforeMonth(_, _)
DaysBeforeMonth(y, m) ==
    IF m = 1 THEN 0 ELSE DaysBeforeMonth(y, m - 1) + DaysInMonth(y, m - 1)

\* date.toordinal(): the day number in the proleptic Gregorian calendar.
Ordinal(y, m, d) ==
    LET p == y - 1
    IN  365 * p + (p \div 4) - (p \div 100) + (p \div 400) + DaysBeforeMonth(y, m) + d

\* The century rule of calculate_age_from_cpr: the birth year from the
\* two-digit year, by the digit at index 9 when the identifier has at least
\* 10 characters and by the current two-digit year otherwise.
resolve_year_below3(len, yy, century_digit, current_year) ==
    IF len >= 10
    THEN (IF century_digit < 3 THEN yy + 2000 ELSE yy + 1900)
    ELSE (IF yy > current_year % 100 THEN yy + 1900 ELSE yy + 2000)

resolve_year(len, yy, century_digit, current_year) ==
    IF len >= 10
    THEN (IF century_digit <= 3 THEN yy + 2000 ELSE yy + 1900)
    ELSE (IF yy > current_year % 100 THEN yy + 1900 ELSE yy + 2000)

\* The guard and the try block of calculate_age_from_cpr when datetime.now()
\* is now: exc is the exception the block raises ("none": it returned
\* value), year the resolved birth year (0: the block did not get that far).
age_try(cpr_nr, now) ==
    IF Len(cpr_nr) < 6 THEN [exc |-> "none", value |-> -1, year |-> 0]
    ELSE LET day   == PyInt(Slice(cpr_nr, 0, 2))
             month == PyInt(Slice(cpr_nr, 2, 4))
             yy    == PyInt(Slice(cpr_nr, 4, 6))
             century_digit ==
                 IF Len(cpr_nr) >= 10 THEN PyInt(<<cpr_nr[10]>>)
                 ELSE [ok |-> TRUE, val |-> 0]
             year  == resolve_year(Len(cpr_nr), yy.val, century_digit.val, now.year)
         IN  IF ~(day.ok /\ month.ok /\ yy.ok /\ century_digit.ok)
             THEN [exc |-> "ValueError", value |-> 0, year |-> 0]
             ELSE IF ~ValidDate(year, month.val, day.val)
             THEN [exc |-> "ValueError", value |-> 0, year |-> year]
             ELSE [exc |-> "none",
                   value |-> (Ordinal(now.year, now.month, now.day)
                              - Ordinal(year, month.val, day.val)) \div 365,
                   year |-> year]

\* The except clause of calculate_age_from_cpr: ValueError and IndexError
\* become the result -1, any other exception leaves the function.
age_reraise(r) == [raised |-> r.exc # "none", value |-> r.value, year |-> r.year]

age_except(r) ==
    IF r.exc \in {"ValueError", "IndexError"}
    THEN [raised |-> FALSE, value |-> -1, year |-> r.year]
    ELSE [raised |-> r.exc # "none", value |-> r.value, year |-> r.year]

\* calculate_age_from_cpr called when datetime.now() is now: whether it
\* raised, the value returned, and the birth year it resolved on the way.
calculate_age(cpr_nr, now) == age_except(age_try(cpr_nr, now))

\* calculate_age_from_cpr
calculate_age_from_cpr(cpr_nr) == calculate_age(cpr_nr, Now).value

(* ------------------------- the polled mailbox ------------------------- *)

OdenseDk == <<"@","o","d","e","n","s","e",".","d","k">>
GtpAddr   == <<"g","t","p">> \o OdenseDk
XflowAddr == <<"x","f","l","o","w">> \o OdenseDk
JakkwAddr == <<"j","a","k","k","w">> \o OdenseDk

RPA == <<"R","P","A">>
TargetPdf == "RPA_aflevering_til_postkasse.pdf"
Html == <<"h","t","m","l">>
Text == <<"t","e","x","t">>

CprChild == <<"0","1","0","1","2","0","1","2","3","3">>
CprAdult == <<"0","1","0","1","8","0","1","2","3","4">>

BodyChild ==
    LblNavn \o <<" ","A","\n">> \o LblCpr \o <<":"," ">> \o CprChild \o <<"\n">>
    \o LblLok \o <<" ","S","k","o","l","e","\n">>
    \o LblDato \o <<" ","2","0","2","5","-","0","1","-","0","2">>
BodyAdultHtml ==
    <<"<","p",">">> \o LblNavn \o <<" ","B","<","/","p",">">>
    \o <<"<","p",">">> \o LblCpr \o <<".",":"," ">> \o CprAdult \o <<"<","/","p",">">>
BodyNoLabels == <<"h","e","j">>

Body(ct, c) == [present |-> TRUE, content_type |-> ct, content |-> c]
Att(id, name) == [id |-> id, name |-> name, content |-> TRUE]

\* The messages a mailbox may hold, as _extract_message_info gives them
\* (id, subject, from_address, has_attachments), with the body and the
\* attachments the Graph API holds for each.
Pool ==
    { [id |-> "m1", from_address |-> XflowAddr,
       subject |-> RPA \o <<" ","1">>, has_attachments |-> TRUE,
       body |-> Body(Text, BodyChild),
       attachments |-> <<Att("a1", TargetPdf)>>],
      [id |-> "m2", from_address |-> <<"G","T","P">> \o OdenseDk,
       subject |-> <<"R","e",":"," ">> \o RPA, has_attachments |-> TRUE,
       body |-> Body(<<"H","T","M","L">>, BodyAdultHtml),
       attachments |-> <<Att("a2", "logo.png"), Att("a3", TargetPdf)>>],
      [id |-> "m3", from_address |-> <<"e","v","i","l">> \o OdenseDk,
       subject |-> RPA \o <<" ","1">>, has_attachments |-> TRUE,
       body |-> Body(Text, BodyChild),
       attachments |-> <<Att("a4", TargetPdf)>>],
      [id |-> "m4", from_address |-> JakkwAddr,
       subject |-> <<"r","p","a"," ","1">>, has_attachments |-> TRUE,
       body |-> Body(Text, BodyChild),
       attachments |-> <<Att("a5", TargetPdf)>>],
      [id |-> "m5", from_address |-> GtpAddr,
       subject |-> <<"x">> \o RPA \o <<"x">>, has_attachments |-> FALSE,
       body |-> Body(Text, BodyNoLabels),
       attachments |-> <<>>] }

MsgIds == {m.id : m \in Pool}
MsgById == [id \in MsgIds |-> CHOOSE m \in Pool : m.id = id]
Msg(id) == MsgById[id]

\* The mailboxes: up to MaxMsgs different messages, in any order.
RECURSIVE SeqsOfLen(_)
SeqsOfLen(n) ==
    IF n = 0 THEN {<<>>}
    ELSE {Append(q, x) : q \in SeqsOfLen(n - 1), x \in MsgIds}
Distinct(q) == \A a, b \in 1..Len(q) : a # b => q[a] # q[b]
Mailboxes == {q \in UNION {SeqsOfLen(n) : n \in 1..MaxMsgs} : Distinct(q)}

(* ------------------------------- state -------------------------------- *)

VARIABLES
    mailbox,         \* the inbox: message ids, newest first; it does not change
    queue,           \* the work queue: its entries in the order they were added
    created,         \* number of entries ever added (the last entry id)
    files,           \* the temp files ever made: files[path] = [msg, name, exists]
    removed,         \* the os.remove calls made: [path, existed, item, uploaded]
    aktiviteter,     \* DUBU: the activities created: [sags_id, item, cpr_nr]
    dokumenter,      \* DUBU: the documents uploaded: [sags_id, item, path]
    pc,              \* where the running program is; "idle" between runs
    messages,        \* populate_queue: the list check_inbox_messages returned
    idx,             \* populate_queue: position of the for loop in messages
    extracted_data,  \* populate_queue: the local of that name, [bound, d]
    item,            \* process_workqueue: id of the entry taken in progress, 0: none
    stage,           \* the function main last entered
    exitCode,        \* exit code of the last finished run, -1 while one runs
    escaped,         \* the exception that left that function: its kind, or "none"
    added,           \* entry ids add_item returned in the current intake run
    caught,          \* whether the except clause of populate_queue ran in this run
    bodyFetched,     \* message ids get_message_body was called with
    attFetched,      \* message ids list_attachments was called with
    runs,            \* number of runs started
    faults,          \* number of calls the environment has failed so far
    call             \* a call of one service function on its own:
                     \* [fn, arg, now, done, result]

vars == <<mailbox, queue, created, files, removed, aktiviteter, dokumenter, pc,
          messages, idx, extracted_data, item, stage, exitCode, escaped, added,
          caught, bodyFetched, attFetched, runs, faults, call>>

dubuVars == <<aktiviteter, dokumenter, removed>>
mailVars == <<bodyFetched, attFetched>>
populateLocals == <<messages, idx, extracted_data, added, caught>>

Unbound == [bound |-> FALSE, d |-> EmptyDict]
Bound(d) == [bound |-> TRUE, d |-> d]

\* No service function is being called on its own.
NoCall == [fn |-> "none", arg |-> <<>>, now |-> Now, done |-> TRUE, result |-> EmptyDict]

Init ==
    /\ call = NoCall
    /\ mailbox \in Mailboxes
    /\ queue = <<>>
    /\ created = 0
    /\ files = <<>>
    /\ removed = {}
    /\ aktiviteter = {}
    /\ dokumenter = {}
    /\ pc = "idle"
    /\ messages = <<>>
    /\ idx = 0
    /\ extracted_data = Unbound
    /\ item = 0
    /\ stage = "none"
    /\ exitCode = -1
    /\ escaped = "none"
    /\ added = {}
    /\ caught = FALSE
    /\ bodyFetched = {}
    /\ attFetched = {}
    /\ runs = 0
    /\ faults = 0

(* --------------------------- the work queue --------------------------- *)

\* Workqueue.clear_workqueue(status): the entries of that status are deleted.
clear_workqueue_all(q, status) == <<>>
clear_workqueue(q, status) == SelectSeq(q, LAMBDA e : e.status # status)

Unknown == <<"u","n","k","n","o","w","n">>

\* Workqueue.add_item(data, reference): a new entry, at status new. src is
\* the message whose loop iteration made the call (the entry itself holds
\* no message id); upload, error, propagated and steps record what
\* process_workqueue later does with the entry.
add_item(q, id, data, reference, src) ==
    Append(q, [id |-> id, status |-> "new", message |-> "", data |-> data,
               reference |-> reference, src |-> src, upload |-> "none",
               error |-> "none", propagated |-> FALSE, steps |-> <<>>])

EntryIds(q) == {q[k].id : k \in 1..Len(q)}
Entry(q, id) == q[CHOOSE k \in 1..Len(q) : q[k].id = id]
Entries == {queue[k] : k \in 1..Len(queue)}

\* The queue with the entry of that id replaced.
Put(q, e) == [k \in 1..Len(q) |-> IF q[k].id = e.id THEN e ELSE q[k]]

(* ------------------- main --queue and populate_queue ------------------ *)

\* check_inbox_messages(limit=10)
InboxLimit == 10

allowed_senders == {GtpAddr, XflowAddr, JakkwAddr}

\* from_address = message['from_address'].lower();
\* from_address not in allowed_senders
SenderAllowed(m) == Lower(m.from_address) \in allowed_senders

\* "RPA" not in message['subject']
SubjectHasRPA_anycase(m) == Contains(Lower(RPA), Lower(m.subject))
SubjectHasRPA(m) == Contains(RPA, m.subject)

\* MailService.get_message_body: the body, or {} when the message has none
\* or the request failed (the error is logged there, not raised).
get_message_body(m, ok) ==
    IF ok /\ m.body.present
    THEN [empty |-> FALSE, content_type |-> m.body.content_type,
          content |-> m.body.content]
    ELSE [empty |-> TRUE, content_type |-> <<>>, content |-> <<>>]

\* if content_type.lower() == 'html': plain_text = extract_text_from_html(content)
\* else: plain_text = content
PlainText(body_data) ==
    IF Lower(body_data.content_type) = Html
    THEN extract_text_from_html(body_data.content)
    ELSE body_data.content

\* extracted_data = parse_email_data(plain_text), for the body of each
\* message of the pool (evaluated once).
Extracted ==
    [id \in MsgIds |-> parse_email_data(PlainText(get_message_body(Msg(id), TRUE)))]

\* Both filters of the for loop, for each message of the pool (evaluated once).
PassesFilters == [id \in MsgIds |-> SenderAllowed(Msg(id)) /\ SubjectHasRPA(Msg(id))]

\* MailService.list_attachments: every attachment whose detail request
\* succeeded (got) and that carries content_bytes is written to a new temp
\* file, whatever its name; the result lists the attachments written.  An
\* error of the listing request itself gives [], as got = {} does.  (An
\* error between mkstemp and the append is not modelled.)
list_attachments(m, got) ==
    LET pick(k) == k \in got /\ m.attachments[k].content
        RECURSIVE Walk(_)
        Walk(k) == IF k > Len(m.attachments) THEN <<>>
                   ELSE (IF pick(k) THEN <<m.attachments[k]>> ELSE <<>>) \o Walk(k + 1)
    IN  Walk(1)

\* The temp files list_attachments made: saved[k] is at path base + k.
NewFiles(m, saved) ==
    [k \in 1..Len(saved) |-> [msg |-> m.id, name |-> saved[k].name, exists |-> TRUE]]

\* for filename, temp_path, metadata in attachments:
\*     if filename == "RPA_aflevering_til_postkasse.pdf":
\*         extracted_data['pdf_path'] = temp_path
AttachPdf(d, saved, base) ==
    LET targets == {k \in 1..Len(saved) : saved[k].name = TargetPdf}
    IN  IF targets = {} THEN d
        ELSE Dict1("pdf_path", base + (CHOOSE k \in targets : \A j \in targets : j <= k))
             @@ d

\* dict.get(key, default)
Get(d, key, default) == IF key \in DOMAIN d THEN d[key] ELSE default

\* except Exception as e: logger.error(...), after which populate_queue
\* returns and main calls exit(0).
populate_reraise(exc) == [exitCode |-> 1, escaped |-> exc]
populate_except(exc) == [exitCode |-> 0, escaped |-> "none"]

\* The environment fails n more calls.
Fail(n) ==
    /\ faults + n <= MaxFaults
    /\ faults' = faults + n

\* An exception raised inside the try block of populate_queue.
RaiseInPopulate(exc) ==
    /\ pc' = "idle"
    /\ caught' = TRUE
    /\ exitCode' = populate_except(exc).exitCode
    /\ escaped' = populate_except(exc).escaped

\* main with --queue: the mail service is initialized (a run in which that
\* fails ends there, having changed nothing, and is not counted), the
\* entries at status new are cleared, populate_queue is entered.
MainQueue ==
    /\ pc = "idle"
    /\ runs < MaxRuns
    /\ runs' = runs + 1
    /\ messages' = <<>>
    /\ idx' = 0
    /\ extracted_data' = Unbound
    /\ added' = {}
    /\ caught' = FALSE
    /\ queue' = clear_workqueue(queue, "new")
    /\ pc' = "check_inbox"
    /\ stage' = "populate_queue"
    /\ exitCode' = -1
    /\ escaped' = "none"
    /\ UNCHANGED <<call, mailbox, created, files, item, dubuVars, mailVars, faults>>

\* messages = await mail_service.check_inbox_messages(limit=10)
CheckInbox ==
    /\ pc = "check_inbox"
    /\ \E ok \in BOOLEAN :
        IF ok
        THEN /\ messages' = Slice(mailbox, 0, InboxLimit)
             /\ idx' = 1
             /\ pc' = "populate"
             /\ UNCHANGED <<caught, exitCode, escaped, faults>>
        ELSE /\ Fail(1)
             /\ RaiseInPopulate("Exception")
             /\ UNCHANGED <<messages, idx>>
    /\ UNCHANGED <<call, mailbox, queue, created, files, item, stage, extracted_data,
                   added, runs, dubuVars, mailVars>>

\* One iteration of the for loop whose message fails a filter: continue.
SkipMessage ==
    /\ pc = "populate"
    /\ idx <= Len(messages)
    /\ ~PassesFilters[messages[idx]]
    /\ idx' = idx + 1
    /\ UNCHANGED <<call, mailbox, queue, created, files, pc, messages, extracted_data,
                   item, stage, exitCode, escaped, added, caught, runs,
                   dubuVars, mailVars, faults>>

\* One iteration of the for loop for a message that passes both filters:
\* body, extraction, attachments, add_item.
PopulateMessage ==
    /\ pc = "populate"
    /\ idx <= Len(messages)
    /\ LET m == Msg(messages[idx])
       IN  /\ PassesFilters[m.id]
           /\ \E bodyOk \in BOOLEAN, got \in SUBSET (1..Len(m.attachments)),
                 addOk \in BOOLEAN :
               LET body_data  == get_message_body(m, bodyOk)
                   listed     == ~body_data.empty /\ m.has_attachments
                   saved      == IF listed THEN list_attachments(m, got) ELSE <<>>
                   ed == IF body_data.empty THEN extracted_data
                         ELSE Bound(AttachPdf(Extracted[m.id], saved, Len(files)))
                   all == 1..Len(m.attachments)
               IN  /\ (~listed => got = all)
                   /\ (~ed.bound => addOk)
                   /\ Fail((IF bodyOk THEN 0 ELSE 1) + (IF got = all THEN 0 ELSE 1)
                           + (IF addOk THEN 0 ELSE 1))
                   /\ bodyFetched' = bodyFetched \cup {m.id}
                   /\ attFetched' = IF listed THEN attFetched \cup {m.id}
                                    ELSE attFetched
                   /\ files' = files \o NewFiles(m, saved)
                   /\ extracted_data' = ed
                   /\ IF ed.bound /\ addOk
                      THEN /\ queue' = add_item(queue, created + 1, ed.d,
                                                Get(ed.d, "cpr_nr", Unknown), m.id)
                           /\ created' = created + 1
                           /\ added' = added \cup {created + 1}
                           /\ idx' = idx + 1
                           /\ UNCHANGED <<pc, caught, exitCode, escaped>>
                      ELSE \* UnboundLocalError of extracted_data, or add_item raised
                           /\ RaiseInPopulate("Exception")
                           /\ UNCHANGED <<queue, created, added, idx>>
    /\ UNCHANGED <<call, mailbox, messages, item, stage, runs, dubuVars>>

\* The for loop is exhausted: populate_queue returns, main calls exit(0).
PopulateEnd ==
    /\ pc = "populate"
    /\ idx > Len(messages)
    /\ pc' = "idle"
    /\ exitCode' = 0
    /\ UNCHANGED <<call, mailbox, queue, created, files, messages, idx, extracted_data,
                   item, stage, escaped, added, caught, runs, dubuVars, mailVars,
                   faults>>

(* ------------------------- process_workqueue -------------------------- *)

\* sags_id=606094
SagsId == 606094

NA == <<"N","/","A">>

\* Whether open(data['pdf_path'], 'rb') succeeds: the key is there (else
\* KeyError) and the file exists (else FileNotFoundError).
Readable(data) ==
    /\ "pdf_path" \in DOMAIN data
    /\ data["pdf_path"] \in 1..Len(files)
    /\ files[data["pdf_path"]].exists

\* What the environment answers to the calls made for one entry.
AktOutcomes == {"ok", "WorkItemError", "Exception"}
UploadOutcomes == {"ok", "reports_failure", "WorkItemError", "Exception"}

\* The body of "with item:" for the entry e, given those answers: the calls
\* made in order (steps), the exception that ended it (exc, "none" when it
\* ran to its end), the answer of the upload call and whether the activity,
\* the document and the os.remove call happened.  The statements are not
\* inside the try block (whose body is pass), so every exception leaves the
\* with block.
ItemBody(e, akt, up) ==
    IF akt # "ok"
    THEN [steps |-> <<"opret_aktivitet">>, exc |-> akt, upload |-> "none",
          aktivitet |-> FALSE, dokument |-> FALSE, remove |-> FALSE]
    ELSE IF ~Readable(e.data)
    THEN [steps |-> <<"opret_aktivitet", "open">>, exc |-> "Exception",
          upload |-> "none",
          aktivitet |-> TRUE, dokument |-> FALSE, remove |-> FALSE]
    ELSE IF up \in {"WorkItemError", "Exception"}
    THEN [steps |-> <<"opret_aktivitet", "open", "upload">>, exc |-> up,
          upload |-> up,
          aktivitet |-> TRUE, dokument |-> FALSE, remove |-> FALSE]
    ELSE [steps |-> <<"opret_aktivitet", "open", "upload", "remove">>,
          exc |-> "none", upload |-> up,
          aktivitet |-> TRUE, dokument |-> (up = "ok"), remove |-> TRUE]

\* main without --queue: process_workqueue is entered.
MainProcess ==
    /\ pc = "idle"
    /\ runs < MaxRuns
    /\ runs' = runs + 1
    /\ pc' = "process"
    /\ stage' = "process_workqueue"
    /\ exitCode' = -1
    /\ escaped' = "none"
    /\ UNCHANGED <<call, mailbox, queue, created, files, item, populateLocals,
                   dubuVars, mailVars, faults>>

\* for item in workqueue: the queue hands out an entry at status new, which
\* is then in progress.
NextItem ==
    /\ pc = "process"
    /\ \E e \in Entries :
        /\ e.status = "new"
        /\ queue' = Put(queue, [e EXCEPT !.status = "in progress"])
        /\ item' = e.id
    /\ pc' = "item"
    /\ UNCHANGED <<call, mailbox, created, files, stage, exitCode, escaped, runs,
                   populateLocals, dubuVars, mailVars, faults>>

\* with item: ... for the entry in progress.  Leaving the block normally
\* completes the entry and the loop goes on; leaving it by an exception ends
\* process_workqueue and the run, the queue's context manager recording the
\* entry as failed with the text of the exception.
ProcessItem ==
    /\ pc = "item"
    /\ \E akt \in AktOutcomes, up \in UploadOutcomes :
        LET e == Entry(queue, item)
            r == ItemBody(e, akt, up)
            path == e.data["pdf_path"]
        IN  /\ ("upload" \notin {r.steps[k] : k \in 1..Len(r.steps)} => up = "ok")
            /\ Fail((IF akt = "ok" THEN 0 ELSE 1) + (IF up = "ok" THEN 0 ELSE 1))
            /\ aktiviteter' =
                 IF r.aktivitet
                 THEN aktiviteter \cup {[sags_id |-> SagsId, item |-> e.id,
                                       cpr_nr |-> Get(e.data, "cpr_nr", NA)]}
                 ELSE aktiviteter
            /\ dokumenter' =
                 IF r.dokument
                 THEN dokumenter \cup {[sags_id |-> SagsId, item |-> e.id,
                                      path |-> path]}
                 ELSE dokumenter
            /\ removed' =
                 IF r.remove
                 THEN removed \cup {[path |-> path, existed |-> files[path].exists,
                                      item |-> e.id, uploaded |-> (r.upload = "ok")]}
                 ELSE removed
            /\ files' =
                 IF r.remove THEN [files EXCEPT ![path].exists = FALSE] ELSE files
            /\ queue' = Put(queue,
                 [e EXCEPT !.steps = r.steps,
                           !.upload = r.upload,
                           !.error = r.exc,
                           !.propagated = (r.exc # "none"),
                           !.status = IF r.exc = "none" THEN "done" ELSE "failed",
                           !.message = IF r.exc = "none" THEN "" ELSE r.exc])
            /\ pc' = IF r.exc = "none" THEN "process" ELSE "idle"
            /\ exitCode' = IF r.exc = "none" THEN exitCode ELSE 1
            /\ escaped' = r.exc
    /\ item' = 0
    /\ UNCHANGED <<call, mailbox, created, stage, runs, populateLocals, mailVars>>

\* The queue has no entry at status new left: the loop and the run end.
ProcessEnd ==
    /\ pc = "process"
    /\ \A e \in Entries : e.status # "new"
    /\ pc' = "idle"
    /\ exitCode' = 0
    /\ UNCHANGED <<call, mailbox, queue, created, files, item, stage, escaped, runs,
                   populateLocals, dubuVars, mailVars, faults>>

(* ------------------------------ the system ---------------------------- *)

Next ==
    \/ MainQueue
    \/ CheckInbox
    \/ SkipMessage
    \/ PopulateMessage
    \/ PopulateEnd
    \/ MainProcess
    \/ NextItem
    \/ ProcessItem
    \/ ProcessEnd

Spec == Init /\ [][Next]_vars

(* ----------------- calculate_age_from_cpr on its own ----------------- *)

\* The longest identifier handed to calculate_age_from_cpr.
MaxCprLen == 11

\* The variables of the mail and fulfillment program.
programVars == <<mailbox, queue, created, files, removed, aktiviteter, dokumenter,
                 pc, messages, idx, extracted_data, item, stage, exitCode, escaped,
                 added, caught, bodyFetched, attFetched, runs, faults>>

\* The program is not running and has never run.
AtRest ==
    /\ mailbox = <<>>
    /\ queue = <<>>
    /\ created = 0
    /\ files = <<>>
    /\ removed = {}
    /\ aktiviteter = {}
    /\ dokumenter = {}
    /\ pc = "idle"
    /\ messages = <<>>
    /\ idx = 0
    /\ extracted_data = Unbound
    /\ item = 0
    /\ stage = "none"
    /\ exitCode = -1
    /\ escaped = "none"
    /\ added = {}
    /\ caught = FALSE
    /\ bodyFetched = {}
    /\ attFetched = {}
    /\ runs = 0
    /\ faults = 0

\* The dates datetime.now() gives in the calls.
NowDates == {Now, [year |-> 2030, month |-> 3, day |-> 1]}

\* The parts the identifiers are put together from: day, month, two-digit
\* year, the three characters at index 6 to 8, the character at index 9,
\* and what follows it.
DayTexts == {<<"0","1">>, <<"2","9">>, <<"3","1">>, <<"0","0">>, <<"3","2">>,
             <<"x","1">>, <<" ","1">>, <<"+","1">>}
MonthTexts == {<<"0","1">>, <<"0","2">>, <<"1","2">>, <<"1","3">>, <<"0","0">>,
               <<"1","x">>}
YearTexts == {<<"0","0">>, <<"2","6">>, <<"2","7">>, <<"5","0">>, <<"9","9">>,
              <<"9","x">>}
SerialTexts == {<<"1","2","3">>, <<"1","x","3">>}
CenturyTexts == {<<"0">>, <<"3">>, <<"4">>, <<"9">>, <<"x">>}
Trailer == <<"5","6","7">>

\* The identifiers: every text of at most MaxCprLen characters that starts
\* such a composition.
CprInputs ==
    { Slice(dd \o mm \o yy \o ser \o c \o Trailer, 0, n) :
        dd \in DayTexts, mm \in MonthTexts, yy \in YearTexts,
        ser \in SerialTexts, c \in CenturyTexts, n \in 0..MaxCprLen }

InitAge ==
    /\ AtRest
    /\ \E cpr_nr \in CprInputs, now \in NowDates :
        call = [fn |-> "calculate_age_from_cpr", arg |-> cpr_nr, now |-> now,
                done |-> FALSE, result |-> EmptyDict]

\* calculate_age_from_cpr(call.arg) runs from its first line to its return.
CallAge ==
    /\ call.fn = "calculate_age_from_cpr"
    /\ ~call.done
    /\ call' = [call EXCEPT !.done = TRUE,
                            !.result = calculate_age(call.arg, call.now)]
    /\ UNCHANGED programVars

NextAge == CallAge

SpecAge == InitAge /\ [][NextAge]_vars

(* -------------------- parse_email_data on its own --------------------- *)

\* The largest number of lines of a text handed to parse_email_data.
MaxLines == 4

\* The lines the texts are put together from: each label with a value on
\* its line, the name label with nothing after it, an identifier label in
\* lower case with a period, and a line without a label.
LineTexts ==
    { LblNavn \o <<" ","A">>,
      LblNavn,
      LblCpr \o <<":"," ">> \o CprChild,
      Lower(LblCpr) \o <<".",":">> \o CprAdult,
      LblLok \o <<" ","S","k","o","l","e">>,
      LblDato \o <<" ","2","0","2","5","-","0","1","-","0","2">>,
      BodyNoLabels }

RECURSIVE LinesOfLen(_)
LinesOfLen(n) ==
    IF n = 0 THEN {<<>>}
    ELSE {Append(q, x) : q \in LinesOfLen(n - 1), x \in LineTexts}

\* The texts: up to MaxLines of those lines, joined by newlines.
ParseInputs == {JoinLines(q) : q \in UNION {LinesOfLen(n) : n \in 0..MaxLines}}

InitParse ==
    /\ AtRest
    /\ \E text_content \in ParseInputs :
        call = [fn |-> "parse_email_data", arg |-> text_content, now |-> Now,
                done |-> FALSE, result |-> EmptyDict]

\* parse_email_data(call.arg) runs from its first line to its return.
CallParse ==
    /\ call.fn = "parse_email_data"
    /\ ~call.done
    /\ call' = [call EXCEPT !.done = TRUE, !.result = parse_email_data(call.arg)]
    /\ UNCHANGED programVars

NextParse == CallParse

SpecParse == InitParse /\ [][NextParse]_vars

(* ------------------------------- claims ------------------------------- *)

Terminal == {"done", "failed"}

\* C1: polling is idempotent: whatever intake and fulfillment runs happen
\* over the unchanged mailbox, the queue never holds two entries made for
\* the same source message.
C1_NoDuplicateEntries ==
    \A a, b \in Entries : a.src = b.src => a.id = b.id

\* One step of the lifecycle of the entries.  An entry is created at status
\* new by the for loop of populate_queue; it goes from new to in progress
\* when the fulfillment loop takes it, from in progress to done or failed
\* while its with block runs, and makes no other move.  With clearing, an
\* entry at status new may also be deleted by the start of an intake run.
LifecycleStep(clearing) ==
    /\ \A e \in Entries :
        IF e.id \in EntryIds(queue')
        THEN LET after == Entry(queue', e.id).status
             IN  \/ after = e.status
                 \/ e.status = "new" /\ after = "in progress" /\ pc = "process"
                 \/ e.status = "in progress" /\ after \in Terminal /\ pc = "item"
        ELSE clearing /\ e.status = "new" /\ pc = "idle" /\ pc' = "check_inbox"
    /\ \A id \in EntryIds(queue') \ EntryIds(queue) :
        Entry(queue', id).status = "new" /\ pc = "populate"

\* C2 (as stated): every entry follows new -> in progress -> {done, failed}
\* and makes no other transition; an entry at status new leaves that status
\* only by being taken in progress by the fulfillment loop.
C2_LifecycleAsStated == [][LifecycleStep(FALSE)]_vars

\* C2 (amended): every entry follows new -> in progress -> {done, failed},
\* is terminal once done or failed, and an entry at status new leaves that
\* status only by being taken in progress by the fulfillment loop or by
\* being deleted by clear_workqueue("new") at the start of an intake run.
C2_Lifecycle == [][LifecycleStep(TRUE)]_vars

\* An entry is done, another failed, and an entry at status new was deleted.
C2_Witness ==
    /\ \E e \in Entries : e.status = "done"
    /\ \E e \in Entries : e.status = "failed"
    /\ created > Len(queue)

\* C3: an entry whose upload call reported failure ends failed, with a
\* reason that is not empty, and the loop went on to the next entry.
C3_UploadFailureFailsEntry ==
    \A e \in Entries :
        e.upload \in {"reports_failure", "WorkItemError"}
            => e.status = "failed" /\ e.message # "" /\ ~e.propagated

\* C4: a WorkItemError raised at any step for an entry is caught for that
\* entry, which is marked failed with the error message, and does not leave
\* process_workqueue; any other exception does leave it.
C4_SoftErrorIsContained ==
    \A e \in Entries :
        /\ e.error = "WorkItemError"
             => e.status = "failed" /\ e.message = "WorkItemError" /\ ~e.propagated
        /\ e.error = "Exception" => e.propagated

\* C5: a staged file is deleted only after the upload of its entry's
\* document succeeded, never twice, and never when it is already gone.
C5_DeletedOnceAfterUpload ==
    \A r \in removed :
        /\ r.existed
        /\ r.uploaded
        /\ \A q \in removed : q # r => q.path # r.path

SameIgnoringCase(a, b) ==
    /\ Len(a) = Len(b)
    /\ \A i \in 1..Len(a) : LowerChar(a[i]) = LowerChar(b[i])
OnAllowList(m) == \E a \in allowed_senders : SameIgnoringCase(m.from_address, a)
MarkedRPA(m) ==
    \E i \in 1..Len(m.subject) :
        /\ i + 2 <= Len(m.subject)
        /\ m.subject[i] = "R" /\ m.subject[i + 1] = "P" /\ m.subject[i + 2] = "A"
QualifyingIds == {id \in MsgIds : OnAllowList(Msg(id)) /\ MarkedRPA(Msg(id))}
Qualifies(m) == m.id \in QualifyingIds

\* C6: only a message whose sender is on the allow-list (compared without
\* regard to case) and whose subject contains "RPA" in that case gets a
\* queue entry; for any other message no body is fetched, no attachment is
\* listed or written and nothing is added to the queue.
C6_Triage ==
    /\ \A e \in Entries : Qualifies(Msg(e.src))
    /\ \A id \in bodyFetched \cup attFetched : Qualifies(Msg(id))
    /\ \A p \in 1..Len(files) : Qualifies(Msg(files[p].msg))

\* The loop has passed a message with "RPA" in its subject from a sender
\* that is not on the allow-list, and has enqueued another message.
C6_Witness ==
    /\ pc = "populate"
    /\ \E k \in 1..(idx - 1) :
        MarkedRPA(Msg(messages[k])) /\ ~OnAllowList(Msg(messages[k]))
    /\ added # {}

\* C7: no entry is made for a message whose identifier gives an age of 15
\* or more, and every entry carries the fields alder and email_id.
C7_AgeRule ==
    \A e \in Entries :
        /\ "alder" \in DOMAIN e.data
        /\ "email_id" \in DOMAIN e.data
        /\ "cpr_nr" \in DOMAIN e.data => calculate_age_from_cpr(e.data["cpr_nr"]) < 15

\* The steps of the fulfillment of one entry, in the order stated.
StatedSteps == <<"find_sag", "opret_aktivitet", "open", "upload", "remove">>

\* C8: for every entry processed the case is first resolved from the
\* entry's identifier and the later steps follow in the order stated, so
\* activities made for different identifiers are on different cases.
C8_CaseResolvedFromIdentifier ==
    /\ \A e \in Entries :
        Len(e.steps) <= Len(StatedSteps) /\ e.steps = SubSeq(StatedSteps, 1, Len(e.steps))
    /\ \A a, b \in aktiviteter : a.cpr_nr # b.cpr_nr => a.sags_id # b.sags_id

\* C9: only an attachment named RPA_aflevering_til_postkasse.pdf is written
\* to a temp file, and after the first intake run every temp file is
\* referenced by the pdf_path of exactly one entry.
C9_OnlyTargetPersisted ==
    /\ \A p \in 1..Len(files) : files[p].name = TargetPdf
    /\ (pc = "idle" /\ stage = "populate_queue" /\ runs = 1)
        => \A p \in 1..Len(files) :
            Cardinality({e \in Entries : "pdf_path" \in DOMAIN e.data
                                         /\ e.data["pdf_path"] = p}) = 1

\* C10: an intake run that entered populate_queue ends with exit code 0, no
\* exception having left populate_queue, and every entry added in the run
\* is in the queue at status new, also when an exception ended the polling.
C10_IntakeSwallowsErrors ==
    (pc = "idle" /\ stage = "populate_queue")
        => /\ exitCode = 0
           /\ escaped = "none"
           /\ \A id \in added :
               id \in EntryIds(queue) /\ Entry(queue, id).status = "new"

\* An intake run has ended by an exception after it had added an entry.
C10_Witness ==
    /\ pc = "idle"
    /\ stage = "populate_queue"
    /\ caught
    /\ added # {}

\* The entry's fields are the ones parse_email_data gives for the body of
\* the entry's own message, and its pdf_path is a file made from that
\* message's attachments.
FromOwnMessage(e) ==
    /\ \A k \in DOMAIN e.data \ {"pdf_path"} :
           k \in DOMAIN Extracted[e.src] /\ e.data[k] = Extracted[e.src][k]
    /\ "pdf_path" \in DOMAIN e.data =>
           /\ e.data["pdf_path"] \in 1..Len(files)
           /\ files[e.data["pdf_path"]].msg = e.src

\* C14: every entry added in an intake run carries only data of its own
\* message, so a message whose body comes back empty gives no entry that
\* holds the fields or the pdf_path of a message handled before it, and no
\* two entries have the same pdf_path.
C14_NoStaleData ==
    /\ \A e \in Entries : FromOwnMessage(e)
    /\ \A e1, e2 \in Entries :
           /\ e1.id # e2.id
           /\ "pdf_path" \in DOMAIN e1.data
           /\ "pdf_path" \in DOMAIN e2.data
           => e1.data["pdf_path"] # e2.data["pdf_path"]

\* C16: every activity process_workqueue has created belongs to an entry
\* for which the upload was attempted in the same run, and to an entry
\* whose staged file could be opened.
C16_ActivityHasDocument ==
    \A a \in aktiviteter :
        a.item \in EntryIds(queue) =>
            LET e == Entry(queue, a.item)
            IN  /\ \E k \in 1..Len(e.steps) : e.steps[k] = "upload"
                /\ "pdf_path" \in DOMAIN e.data

(* ------------------ claims on calculate_age_from_cpr ------------------ *)

\* calculate_age_from_cpr has been called and has come to its end.
AgeCalled == call.fn = "calculate_age_from_cpr" /\ call.done

AllDigits(s) == \A k \in 1..Len(s) : IsDigit(s[k])

\* The number a text of digits writes.
Number(s) == DigitsValue(s, 0)

\* The birth year as stated: by the digit at index 9 of an identifier of at
\* least 10 characters, by the current two-digit year for a shorter one.
StatedYear(s, now) ==
    LET YY == Number(Slice(s, 4, 6))
    IN  IF Len(s) >= 10
        THEN (IF DigitValue(s[10]) <= 3 THEN 2000 + YY ELSE 1900 + YY)
        ELSE (IF YY > now.year % 100 THEN 1900 + YY ELSE 2000 + YY)

\* An identifier of ten digits whose day, month and stated year are a date.
RealDate(s, now) ==
    /\ Len(s) = 10
    /\ AllDigits(s)
    /\ ValidDate(StatedYear(s, now), Number(Slice(s, 2, 4)), Number(Slice(s, 0, 2)))

\* The whole days from the birth date of such an identifier to now.
DaysSince(s, now) ==
    Ordinal(now.year, now.month, now.day)
    - Ordinal(StatedYear(s, now), Number(Slice(s, 2, 4)), Number(Slice(s, 0, 2)))

\* Malformed as stated: a length other than 10, a character that is not a
\* digit at any position, or a day and month that are not a calendar date.
Malformed(s, now) == ~RealDate(s, now)

\* C11 as stated: calculate_age_from_cpr never raises, and it returns -1
\* for every malformed identifier.
C11_MalformedGivesMinusOne ==
    AgeCalled =>
        /\ ~call.result.raised
        /\ Malformed(call.arg, call.now) => call.result.value = -1

\* What the function reads of an identifier of at least six characters:
\* the three two-character fields and, when there are at least 10
\* characters, the one at index 9.
FieldsRead(s) ==
    {Slice(s, 0, 2), Slice(s, 2, 4), Slice(s, 4, 6)}
    \cup (IF Len(s) >= 10 THEN {<<s[10]>>} ELSE {})

\* The identifier is turned down: it has fewer than six characters, int()
\* rejects one of the fields read, or day, month and the resolved year are
\* not a calendar date.
Rejected(s, now) ==
    \/ Len(s) < 6
    \/ \E f \in FieldsRead(s) : ~PyInt(f).ok
    \/ ~ValidDate(resolve_year(Len(s), PyInt(Slice(s, 4, 6)).val,
                               IF Len(s) >= 10 THEN PyInt(<<s[10]>>).val ELSE 0,
                               now.year),
                  PyInt(Slice(s, 2, 4)).val, PyInt(Slice(s, 0, 2)).val)

\* C11, amended: calculate_age_from_cpr never raises; it returns -1 for
\* every identifier that is turned down, and for every other identifier,
\* whatever its length and whatever stands at index 6 to 8 or after index
\* 9, it returns the days since the resolved birth date divided by 365,
\* rounded down.
C11_RejectedGivesMinusOne ==
    AgeCalled =>
        /\ ~call.result.raised
        /\ Rejected(call.arg, call.now) => call.result.value = -1
        /\ ~Rejected(call.arg, call.now) =>
               /\ call.result.year # 0
               /\ call.result.value =
                      (Ordinal(call.now.year, call.now.month, call.now.day)
                       - Ordinal(call.result.year, PyInt(Slice(call.arg, 2, 4)).val,
                                 PyInt(Slice(call.arg, 0, 2)).val)) \div 365

\* A call with ten digits whose month is 13 has returned -1.
C11_Witness ==
    /\ AgeCalled
    /\ Len(call.arg) = 10
    /\ AllDigits(call.arg)
    /\ Number(Slice(call.arg, 2, 4)) = 13
    /\ ~call.result.raised
    /\ call.result.value = -1

C15_AgeNeverNegative ==
    AgeCalled /\ RealDate(call.arg, call.now) =>
        /\ call.result.value = DaysSince(call.arg, call.now) \div 365
        /\ call.result.value >= 0

(* --------------------- claims on parse_email_data --------------------- *)

\* parse_email_data has been called and has come to its end.
ParseCalled == call.fn = "parse_email_data" /\ call.done

Fields == {"indsendt_dato", "cpr_nr", "lokation", "navn"}

\* The label of a field that holds free text.
FreeLabel(field) == IF field = "lokation" THEN LblLok ELSE LblNavn

\* The text from position p to the end of the line p is on.
RECURSIVE RestOfLine(_, _)
RestOfLine(s, p) ==
    IF p > Len(s) \/ s[p] = "\n" THEN <<>> ELSE <<s[p]>> \o RestOfLine(s, p + 1)

\* The value is what follows an occurrence of the field's label up to the
\* end of that same line, white space around it aside.
OnLabelLine(field, s, value) ==
    \E i \in 1..Len(s) :
        /\ LabelAt(FreeLabel(field), s, i)
        /\ value = Strip(RestOfLine(s, i + Len(FreeLabel(field))))

\* C13: a key is in the result exactly when its labelled pattern occurs in
\* the text, no other key is; cpr_nr, when present, is exactly 10 digits;
\* lokation and navn, when present, hold the text that follows their label
\* up to the end of that same line.
C13_ParseAsStated ==
    ParseCalled =>
        /\ DOMAIN call.result \subseteq Fields
        /\ \A f \in Fields : f \in DOMAIN call.result <=> Search(f, call.arg).ok
        /\ "cpr_nr" \in DOMAIN call.result =>
               Len(call.result["cpr_nr"]) = 10 /\ AllDigits(call.result["cpr_nr"])
        /\ \A f \in {"lokation", "navn"} :
               f \in DOMAIN call.result => OnLabelLine(f, call.arg, call.result[f])

====
